---------------------------- MODULE Spec2Model ----------------------------
(***************************************************************************)
(* A model of loader.py: the CSV -> Elasticsearch loader of arctos_data.   *)
(*                                                                         *)
(* Strings are sequences of one-character strings, so that strip, split,   *)
(* int() and float() are computed and not assumed.  A document value is a  *)
(* record of one shape (kind, s, n, e, l) whatever its Python type.        *)
(***************************************************************************)
EXTENDS Integers, Sequences, FiniteSets, TLC

VARIABLES
    pc,             \* position of the running program (or of the harness)
    test,           \* args.test
    chunk_size,     \* args.chunk_size
    index_name,     \* args.index
    all_csvs,       \* main: the sorted list of input files (their names)
    type_map,       \* the mapping returned by load_type_lookup
    es,             \* the backend: index name -> collection
    calls,          \* the backend operations issued so far, in order
    path,           \* main: position in all_csvs of the file being processed
    rows,           \* the rows csv.DictReader yields for the open file
    total_rows,     \* preview_file: total_rows (= i of enumerate)
    unknowns,       \* preview_file: the Counter of unmapped guid_prefix
    produced,       \* preview_file: the documents transform_row returned
    total,          \* index_file: total
    chunk,          \* index_file: chunk (the _source of each action)
    chunk_num,      \* index_file: chunk_num
    submitted,      \* index_file: the helpers.bulk calls made for this file
    bulk_failed,    \* whether some helpers.bulk call of the run has raised
    grand_total,    \* main: grand_total
    grand_unknowns, \* main: grand_unknowns
    row,            \* transform harness: the raw row
    doc,            \* transform harness: the document returned
    ncalls          \* lifecycle harness: create_index calls that returned

vars == <<pc, test, chunk_size, index_name, all_csvs, type_map, es, calls,
          path, rows, total_rows, unknowns, produced, total, chunk,
          chunk_num, submitted, bulk_failed, grand_total, grand_unknowns,
          row, doc, ncalls>>

---------------------------------------------------------------------------
(* Bounds of the model.                                                    *)
MaxPad == 1         \* blanks around a raw value
MaxFiles == 2       \* input files of a run
MaxRows == 3        \* rows of an input file
MaxChunk == 2       \* --chunk-size
MaxDocs == 1        \* documents of a collection that exists before the run

---------------------------------------------------------------------------
(* FIELDS, in the order of the dict.                                       *)
FIELDS ==
    << <<"guid_prefix", "keyword">>, <<"type", "keyword">>,
       <<"cataloged_item_type", "keyword">>, <<"cat_num", "text">>,
       <<"institution_acronym", "keyword">>, <<"collection_cde", "keyword">>,
       <<"collectors", "keyword">>, <<"continent_ocean", "keyword">>,
       <<"country", "keyword">>, <<"state_prov", "keyword">>,
       <<"county", "keyword">>, <<"dec_lat", "float">>,
       <<"dec_long", "float">>, <<"datum", "text">>,
       <<"coordinateuncertaintyinmeters", "float">>,
       <<"scientific_name", "text">>, <<"identifiedby", "text">>,
       <<"kingdom", "keyword">>, <<"phylum", "keyword">>,
       <<"family", "keyword">>, <<"genus", "keyword">>,
       <<"species", "keyword">>, <<"subspecies", "keyword">>,
       <<"relatedinformation", "text">>, <<"year", "integer">>,
       <<"month", "integer">>, <<"day", "integer">>,
       <<"taxon_rank", "keyword">>, <<"parts", "keyword">>,
       <<"has_tissue", "keyword">> >>

FieldNames == {FIELDS[i][1] : i \in 1..Len(FIELDS)}

FieldType(f) ==
    LET i == CHOOSE j \in 1..Len(FIELDS) : FIELDS[j][1] = f IN FIELDS[i][2]

---------------------------------------------------------------------------
(* Python values.                                                          *)

\* None, as a raw value: a sequence that is no string (its one element is not a character).
None == <<"None">>

StrVal(s) == [kind |-> "str", s |-> s, n |-> 0, e |-> 0, l |-> <<>>]
Null == [kind |-> "null", s |-> <<>>, n |-> 0, e |-> 0, l |-> <<>>]
IntVal(n) == [kind |-> "int", s |-> <<>>, n |-> n, e |-> 0, l |-> <<>>]
\* the float m / 10^e, m not a multiple of 10 unless e = 0
FloatVal(m, e) == [kind |-> "float", s |-> <<>>, n |-> m, e |-> e, l |-> <<>>]
ListVal(l) == [kind |-> "list", s |-> <<>>, n |-> 0, e |-> 0, l |-> l]

\* {} as a dict
EmptyDict == [k \in {} |-> Null]

\* d[k] = v
Put(d, k, v) == [x \in DOMAIN d \cup {k} |-> IF x = k THEN v ELSE d[x]]

\* v or ""
OrEmpty(v) == IF v = None THEN <<>> ELSE v

IsSpace(c) == c = " "

RECURSIVE lstrip(_)
lstrip(s) ==
    IF s = <<>> THEN s
    ELSE IF IsSpace(Head(s)) THEN lstrip(Tail(s)) ELSE s

RECURSIVE rstrip(_)
rstrip(s) ==
    IF s = <<>> THEN s
    ELSE IF IsSpace(s[Len(s)]) THEN rstrip(SubSeq(s, 1, Len(s) - 1)) ELSE s

\* str.strip()
strip(s) == rstrip(lstrip(s))

\* str.split(sep): at least one piece, the pieces between the separators
RECURSIVE split(_, _)
split(s, sep) ==
    IF \A i \in 1..Len(s) : s[i] # sep THEN <<s>>
    ELSE LET i == CHOOSE j \in 1..Len(s) :
                      s[j] = sep /\ \A k \in 1..(j - 1) : s[k] # sep
         IN <<SubSeq(s, 1, i - 1)>> \o split(SubSeq(s, i + 1, Len(s)), sep)

Digits == {"0", "1", "2", "3", "4", "5", "6", "7", "8", "9"}

DigitVal(c) ==
    CASE c = "0" -> 0 [] c = "1" -> 1 [] c = "2" -> 2 [] c = "3" -> 3
      [] c = "4" -> 4 [] c = "5" -> 5 [] c = "6" -> 6 [] c = "7" -> 7
      [] c = "8" -> 8 [] c = "9" -> 9

AllDigits(s) == \A i \in 1..Len(s) : s[i] \in Digits

RECURSIVE digits_value(_)
digits_value(s) ==
    IF s = <<>> THEN 0
    ELSE 10 * digits_value(SubSeq(s, 1, Len(s) - 1)) + DigitVal(s[Len(s)])

Signed(s) == s # <<>> /\ s[1] \in {"+", "-"}
Unsigned(s) == IF Signed(s) THEN Tail(s) ELSE s
Sign(s) == IF Signed(s) /\ s[1] = "-" THEN -1 ELSE 1

\* Whether int(s) returns (s already stripped): a sign, then digits.  int()
\* raises ValueError on everything else the alphabet of the model can spell.
int_parses(s) == Unsigned(s) # <<>> /\ AllDigits(Unsigned(s))

int_value(s) == Sign(s) * digits_value(Unsigned(s))

\* The digits of s before and after its first "."
IntPart(s) ==
    IF \A i \in 1..Len(s) : s[i] # "." THEN s ELSE split(s, ".")[1]
FracPart(s) ==
    IF \A i \in 1..Len(s) : s[i] # "." THEN <<>>
    ELSE SubSeq(s, Len(IntPart(s)) + 2, Len(s))

\* Whether float(s) returns: a sign, then digits with at most one "." among
\* them and at least one digit ("7", "7.", ".5", "7.5").
float_parses(s) ==
    LET u == Unsigned(s) IN
    /\ AllDigits(IntPart(u))
    /\ AllDigits(FracPart(u))
    /\ Len(IntPart(u)) + Len(FracPart(u)) >= 1

RECURSIVE Normal(_, _)
Normal(m, e) == IF e > 0 /\ m % 10 = 0 THEN Normal(m \div 10, e - 1) ELSE FloatVal(m, e)

float_value(s) ==
    LET u == Unsigned(s) IN
    Normal(Sign(s) * digits_value(IntPart(u) \o FracPart(u)), Len(FracPart(u)))

RECURSIVE NonEmptyStripped(_)
NonEmptyStripped(pieces) ==
    IF pieces = <<>> THEN <<>>
    ELSE (IF strip(Head(pieces)) # <<>> THEN <<strip(Head(pieces))>> ELSE <<>>)
         \o NonEmptyStripped(Tail(pieces))

---------------------------------------------------------------------------
(* transform_row                                                           *)

\* What propagates out of int() or float() on a malformed literal.
ValueError == [kind |-> "ValueError", s |-> <<>>, n |-> 0, e |-> 0, l |-> <<>>]

\* int(value)
PyInt(value) == IF int_parses(value) THEN IntVal(int_value(value)) ELSE ValueError

\* float(value)
PyFloat(value) == IF float_parses(value) THEN float_value(value) ELSE ValueError

\* IntField without its except clause.
IntFieldNoExcept(value) == IF value = <<>> THEN Null ELSE PyInt(value)

\* try: int(value) if value != "" else None / except Exception: None
IntField(value) ==
    IF value = <<>> THEN Null
    ELSE IF PyInt(value) = ValueError THEN Null ELSE PyInt(value)

\* try: float(value) if value != "" else None / except Exception: None
FloatField(value) ==
    IF value = <<>> THEN Null
    ELSE IF PyFloat(value) = ValueError THEN Null ELSE PyFloat(value)

\* [c.strip() for c in value.split(",") if c.strip()]
CollectorsField(value) == ListVal(NonEmptyStripped(split(value, ",")))

\* The value one field of the row gets in the document.
FieldValue(field, ftype, raw) ==
    LET value == strip(OrEmpty(raw)) IN
    IF ftype = "integer" THEN IntField(value)
    ELSE IF ftype = "float" THEN FloatField(value)
    ELSE IF field = "collectors" THEN CollectorsField(value)
    ELSE StrVal(value)

\* The outcome of a call that an exception left: no document.
Raised == [k \in {"raise"} |-> ValueError]

\* The loop over FIELDS.items(), from its i-th item on.  An exception that
\* no handler catches ends the loop and the call.
RECURSIVE TransformFields(_, _, _)
TransformFields(r, i, d) ==
    IF i > Len(FIELDS) THEN d
    ELSE LET field == FIELDS[i][1]
             ftype == FIELDS[i][2]
         IN IF field = "type" THEN TransformFields(r, i + 1, d)
            ELSE IF field \in DOMAIN r
                 THEN LET v == FieldValue(field, ftype, r[field]) IN
                      IF v = ValueError THEN Raised
                      ELSE TransformFields(r, i + 1, Put(d, field, v))
                 ELSE TransformFields(r, i + 1, d)

\* doc.get("guid_prefix", "")
GuidPrefixOf(d) == IF "guid_prefix" \in DOMAIN d THEN d["guid_prefix"].s ELSE <<>>

\* type_map.get(gp): no fallback to the key.
DerivedTypeNoFallback(m, gp) == IF gp \in DOMAIN m THEN m[gp] ELSE <<>>

\* type_map.get(gp, gp)
DerivedType(m, gp) == IF gp \in DOMAIN m THEN m[gp] ELSE gp

transform_row(r, m) ==
    LET d == TransformFields(r, 1, EmptyDict) IN
    IF d = Raised THEN Raised
    ELSE Put(d, "type", StrVal(DerivedType(m, GuidPrefixOf(d))))

---------------------------------------------------------------------------
(* load_type_lookup                                                        *)

EmptyMap == [k \in {} |-> <<>>]

\* The columns load_type_lookup requires of the lookup file.
RequiredCols == {"guid_prefix", "type"}

\* {"guid_prefix", "type"} - set(reader.fieldnames or [])
MissingCols(lookup) == RequiredCols \ lookup.fieldnames

\* mapping[gp] = tp or gp
LookupEntry(gp, tp) == IF tp # <<>> THEN tp ELSE gp

\* for row in reader: ... if gp: mapping[gp] = tp or gp
RECURSIVE LoadRows(_, _)
LoadRows(rs, mapping) ==
    IF rs = <<>> THEN mapping
    ELSE LET gp == strip(OrEmpty(Head(rs).guid_prefix))
             tp == strip(OrEmpty(Head(rs).type))
         IN LoadRows(Tail(rs),
                     IF gp # <<>> THEN Put(mapping, gp, LookupEntry(gp, tp))
                     ELSE mapping)

\* The mapping load_type_lookup returns, when it returns.
load_type_lookup(lookup) ==
    IF ~lookup.exists THEN EmptyMap ELSE LoadRows(lookup.rows, EmptyMap)

---------------------------------------------------------------------------
(* The inputs the model draws.                                             *)

SeqsUpTo(S, n) == UNION {[1..k -> S] : k \in 0..n}

Blanks(k) == [i \in 1..k |-> " "]

\* Raw values without the blanks around them.
Cores ==
    { <<>>, <<"X">>, <<"Y">>, <<"-", "7">>, <<"7", ".", "5">>,
      <<"X", " ", ",", ",", " ", "Y">> }

\* The raw values of a CSV cell: a core with blanks around it, or None (a
\* row shorter than the header).
RawValues ==
    {Blanks(a) \o c \o Blanks(b) : a \in 0..MaxPad, b \in 0..MaxPad, c \in Cores}
    \cup {None}

\* Columns of an input file: one for each branch of transform_row, and one
\* that FIELDS does not name.
RowColumns == {"guid_prefix", "type", "year", "dec_lat", "collectors", "guid"}

\* What the columns of a row hold apart from the one that varies.
Fills == {<<"X">>, <<"-", "7">>}

\* Raw rows: any subset of the columns, one of them with any raw value, the
\* others all with the same fill.
TransformRows ==
    { [c \in S |-> IF c = c1 THEN v1 ELSE fill] :
        S \in SUBSET RowColumns, c1 \in RowColumns, v1 \in RawValues,
        fill \in Fills }

\* The rows of a lookup file that has both required columns.
LookupRows ==
    [guid_prefix : {<<"X">>, <<" ", "X">>, <<>>, None},
     type : {<<"T">>, <<"T", " ">>, <<"X">>, <<>>, None}]

MaxLookupRows == 1

\* Lookup files: absent, without a required column, or well-formed.
LookupFiles ==
    {[exists |-> FALSE, fieldnames |-> {}, rows |-> <<>>]}
    \cup {[exists |-> TRUE, fieldnames |-> F, rows |-> <<>>] :
            F \in (SUBSET RequiredCols) \ {RequiredCols}}
    \cup {[exists |-> TRUE, fieldnames |-> RequiredCols, rows |-> rs] :
            rs \in SeqsUpTo(LookupRows, MaxLookupRows)}

\* The mappings a run can hold.
TypeMaps == {load_type_lookup(lf) : lf \in {f \in LookupFiles : MissingCols(f) = {}}}

IndexNames == {"arctos", "other"}

---------------------------------------------------------------------------
(* Values of the variables a specification does not use.                   *)

NoMappings == [properties |-> EmptyMap]

\* A name the backend holds no collection for.
NoCollection == [exists |-> FALSE, mappings |-> NoMappings, docs |-> 0]

IdleArgs ==
    /\ test = FALSE /\ chunk_size = 0 /\ index_name = "arctos"
    /\ all_csvs = <<>> /\ path = 0
    /\ grand_total = 0 /\ grand_unknowns = EmptyMap /\ bulk_failed = FALSE

IdleBackend == es = [n \in IndexNames |-> NoCollection] /\ calls = <<>>

IdlePreview == total_rows = 0 /\ unknowns = EmptyMap /\ produced = <<>>

IdleIndex == total = 0 /\ chunk = <<>> /\ chunk_num = 0 /\ submitted = <<>>

IdleTransform == row = EmptyMap /\ doc = EmptyDict

argVars == <<test, chunk_size, index_name, all_csvs, path, grand_total,
             grand_unknowns, bulk_failed>>
backendVars == <<es, calls>>
previewVars == <<total_rows, unknowns, produced>>
indexVars == <<total, chunk, chunk_num, submitted>>
transformVars == <<row, doc>>

---------------------------------------------------------------------------
(* SpecTransform: transform_row applied to one raw row.                    *)

InitTransform ==
    /\ pc = "transform_row"
    /\ row \in TransformRows
    /\ type_map \in TypeMaps
    /\ doc = EmptyDict
    /\ rows = <<>> /\ ncalls = 0
    /\ IdleArgs /\ IdleBackend /\ IdlePreview /\ IdleIndex

TransformRow ==
    /\ pc = "transform_row"
    /\ doc' = transform_row(row, type_map)
    /\ pc' = "transformed"
    /\ UNCHANGED <<row, type_map, rows, ncalls, argVars, backendVars,
                   previewVars, indexVars>>

NextTransform == TransformRow

SpecTransform == InitTransform /\ [][NextTransform]_vars

---------------------------------------------------------------------------
(* Claims about transform_row (under SpecTransform).                       *)

\* The row's guid_prefix value, the empty string when the column is absent
\* or holds no value.
RawGuidPrefix(r) == IF "guid_prefix" \in DOMAIN r THEN OrEmpty(r["guid_prefix"]) ELSE <<>>

\* lookup.get(p, p)
Fallback(m, p) == IF p \in DOMAIN m THEN m[p] ELSE p

\* C6, as amended: the document's type is always present and a string, and
\* with p the row's guid_prefix value after trimming (the value the
\* document stores; empty when the column is absent) it is lookup[p] when
\* p is a key of the mapping and p itself otherwise.
C6_LookupFallbackTrimmed ==
    pc = "transformed" =>
        /\ doc # Raised
        /\ "type" \in DOMAIN doc
        /\ doc["type"].kind = "str"
        /\ doc["type"].s = Fallback(type_map, strip(RawGuidPrefix(row)))

\* C6 as stated: with p the row's guid_prefix value as it stands in the
\* row, type is lookup[p] when p is a key and p verbatim otherwise.
C6_LookupFallbackVerbatim ==
    pc = "transformed" =>
        /\ "type" \in DOMAIN doc
        /\ doc["type"].s = Fallback(type_map, RawGuidPrefix(row))

\* C6's case: a row whose guid_prefix is a key of the mapping, mapped to
\* another string, has been transformed.
C6_Witness ==
    /\ pc = "transformed"
    /\ "guid_prefix" \in DOMAIN row
    /\ strip(RawGuidPrefix(row)) \in DOMAIN type_map
    /\ doc["type"].s = type_map[strip(RawGuidPrefix(row))]
    /\ doc["type"].s # strip(RawGuidPrefix(row))

IsNumeric(f) == FieldType(f) \in {"integer", "float"}

\* Whether the trimmed raw value v spells a number of field f's type.
SpellsNumber(f, v) ==
    IF FieldType(f) = "integer" THEN int_parses(v) ELSE float_parses(v)

\* The row r with a well-formed number in column c.
Repaired(r, c) == [r EXCEPT ![c] = <<"0">>]

\* C10: transform_row returns a document for every raw row; a schema field
\* (other than the derived type) whose column is missing is absent from the
\* document; an integer/float field whose column is present is null when
\* the trimmed value is empty or does not parse and the parsed number
\* otherwise; and a field that fails to parse leaves every other field of
\* the document as it is when that field parses.
C10_TransformTotal ==
    pc = "transformed" =>
        /\ doc # Raised
        /\ \A f \in FieldNames \ {"type"} :
              IF f \notin DOMAIN row THEN f \notin DOMAIN doc
              ELSE /\ f \in DOMAIN doc
                   /\ IsNumeric(f) =>
                        LET v == strip(OrEmpty(row[f])) IN
                        IF v = <<>> \/ ~SpellsNumber(f, v)
                        THEN doc[f] = Null
                        ELSE /\ doc[f].kind = (IF FieldType(f) = "integer"
                                               THEN "int" ELSE "float")
                             /\ FieldType(f) = "integer" => doc[f].n = int_value(v)
        /\ \A c \in DOMAIN row \cap FieldNames :
              (IsNumeric(c) /\ ~SpellsNumber(c, strip(OrEmpty(row[c])))) =>
                  LET other == transform_row(Repaired(row, c), type_map) IN
                  /\ DOMAIN other = DOMAIN doc
                  /\ \A f \in DOMAIN doc \ {c} : doc[f] = other[f]

\* C10's case: a row without guid_prefix whose year does not parse and
\* whose dec_lat does has been transformed.
C10_Witness ==
    /\ pc = "transformed"
    /\ "guid_prefix" \notin DOMAIN row
    /\ "year" \in DOMAIN row
    /\ strip(OrEmpty(row["year"])) # <<>>
    /\ ~int_parses(strip(OrEmpty(row["year"])))
    /\ doc["year"] = Null
    /\ "dec_lat" \in DOMAIN row
    /\ doc["dec_lat"].kind = "float"

---------------------------------------------------------------------------
(* The backend, as create_index and _bulk use it.  Every operation can     *)
(* fail because the backend is unreachable ("error"); Delete of a missing  *)
(* collection and Create of an existing one are refused ("rejected").      *)

\* {"mappings": {"properties": {field: {"type": FIELDS[field]} for field in FIELDS}}}
IndexMappings == [properties |-> [f \in FieldNames |-> [type |-> FieldType(f)]]]

\* The schema of a collection some earlier loader left.
OldMappings == [properties |-> [f \in {"guid_prefix"} |-> [type |-> "text"]]]

\* The collections a name can hold before the run.
Collections ==
    {NoCollection}
    \cup [exists : {TRUE}, mappings : {IndexMappings, OldMappings}, docs : 0..MaxDocs]

\* create_index with the exception of a backend call swallowed.
LifecycleFailureSwallowed == "create_index_returned"

\* An exception of es.indices.* leaves create_index and main: the run aborts.
LifecycleFailure == "backend_error"

\* create_index's branch on es.indices.exists: delete only what exists.
AfterExistsAlwaysCreate(found) == "indices_create"

AfterExists(found) == IF found THEN "indices_delete" ELSE "indices_create"

\* es.indices.exists(index=index_name)
IndicesExists ==
    /\ pc = "indices_exists"
    /\ \E up \in BOOLEAN :
          /\ calls' = Append(calls,
                             <<"Exists", IF ~up THEN "error"
                                         ELSE IF es[index_name].exists THEN "true"
                                         ELSE "false">>)
          /\ pc' = IF up THEN AfterExists(es[index_name].exists) ELSE LifecycleFailure
    /\ UNCHANGED <<es, ncalls, type_map, rows, argVars, previewVars, indexVars,
                   transformVars>>

\* es.indices.delete(index=index_name)
IndicesDelete ==
    /\ pc = "indices_delete"
    /\ \E up \in BOOLEAN :
          LET outcome == IF ~up THEN "error"
                         ELSE IF es[index_name].exists THEN "ok" ELSE "rejected"
          IN /\ calls' = Append(calls, <<"Delete", outcome>>)
             /\ es' = IF outcome = "ok" THEN [es EXCEPT ![index_name] = NoCollection]
                      ELSE es
             /\ pc' = IF outcome = "ok" THEN "indices_create" ELSE LifecycleFailure
    /\ UNCHANGED <<ncalls, type_map, rows, argVars, previewVars, indexVars,
                   transformVars>>

\* es.indices.create(index=index_name, body=mappings); create_index returns
IndicesCreate ==
    /\ pc = "indices_create"
    /\ \E up \in BOOLEAN :
          LET outcome == IF ~up THEN "error"
                         ELSE IF es[index_name].exists THEN "rejected" ELSE "ok"
          IN /\ calls' = Append(calls, <<"Create", outcome>>)
             /\ es' = IF outcome = "ok"
                      THEN [es EXCEPT ![index_name] =
                               [exists |-> TRUE, mappings |-> IndexMappings, docs |-> 0]]
                      ELSE es
             /\ pc' = IF outcome = "ok" THEN "create_index_returned" ELSE LifecycleFailure
             /\ ncalls' = IF outcome = "ok" THEN ncalls + 1 ELSE ncalls
    /\ UNCHANGED <<type_map, rows, argVars, previewVars, indexVars, transformVars>>

\* _bulk with the except clause re-raising.
AfterBulkEscalates(ok, next) == IF ok THEN next ELSE "backend_error"

\* Where _bulk's caller goes on: the exception of helpers.bulk is caught.
AfterBulk(ok, next) == next

\* _bulk(es, actions, chunk_num): one helpers.bulk call.  A call that raises
\* may have stored any part of the batch.
bulk(actions, num, next) ==
    \E ok \in BOOLEAN, stored \in 0..Len(actions) :
        /\ ok => stored = Len(actions)
        /\ submitted' = Append(submitted,
                               [chunk_num |-> num, actions |-> actions, ok |-> ok])
        /\ calls' = Append(calls, <<"BulkIndex", "sent">>)
        /\ es' = [es EXCEPT ![Head(actions)._index].docs = @ + stored]
        /\ bulk_failed' = (bulk_failed \/ ~ok)
        /\ pc' = AfterBulk(ok, next)

---------------------------------------------------------------------------
(* preview_file and index_file                                             *)

\* The rows of the input files: with a guid_prefix column, and without.
DataRows ==
    { [guid_prefix |-> <<"X">>, year |-> <<"-", "7">>],
      [guid_prefix |-> <<" ", "Y">>, year |-> <<"X">>],
      [year |-> None] }

\* What csv.DictReader yields for a file: every row has the header's columns.
FileContents ==
    {f \in SeqsUpTo(DataRows, MaxRows) :
        \A i, j \in 1..Len(f) : DOMAIN f[i] = DOMAIN f[j]}

\* The input files of a whole run: files of 0 to MaxRows rows.
RunFiles == SeqsUpTo({[guid_prefix |-> <<"X">>, year |-> <<"-", "7">>]}, MaxRows)

\* transform_row, tabulated over the rows of the input files and the
\* mappings of a run.
Documents ==
    [r \in DataRows \cup UNION {{f[i] : i \in 1..Len(f)} : f \in RunFiles}, m \in TypeMaps |->
        transform_row(r, m)]

\* unknowns[gp] += 1
Count(counter, k) ==
    Put(counter, k, IF k \in DOMAIN counter THEN counter[k] + 1 ELSE 1)

\* Counter.update(other)
Update(counter, other) ==
    [k \in DOMAIN counter \cup DOMAIN other |->
        (IF k \in DOMAIN counter THEN counter[k] ELSE 0)
        + (IF k \in DOMAIN other THEN other[k] ELSE 0)]

\* doc.get("type", "") == doc.get("guid_prefix", "")
FallbackUsed(d) == d["type"].s = GuidPrefixOf(d)

\* with open(csv_path): the reader, and the locals of preview_file
OpenPreview(content) ==
    /\ rows' = content
    /\ total_rows' = 0 /\ unknowns' = EmptyMap /\ produced' = <<>>

\* One iteration of preview_file's loop.
PreviewRow ==
    /\ pc = "preview_file"
    /\ total_rows < Len(rows)
    /\ total_rows' = total_rows + 1
    /\ LET d == Documents[rows[total_rows + 1], type_map] IN
       IF d = Raised
       THEN pc' = "ValueError" /\ UNCHANGED <<produced, unknowns>>
       ELSE /\ produced' = Append(produced, d)
            /\ unknowns' = IF FallbackUsed(d) THEN Count(unknowns, GuidPrefixOf(d))
                           ELSE unknowns
            /\ pc' = pc
    /\ UNCHANGED <<type_map, rows, ncalls, argVars, backendVars, indexVars,
                   transformVars>>

\* The end of the loop: the summary is printed, the counts are returned.
PreviewEnd ==
    /\ pc = "preview_file"
    /\ total_rows = Len(rows)
    /\ pc' = "preview_file_returned"
    /\ UNCHANGED <<type_map, rows, ncalls, argVars, backendVars, previewVars,
                   indexVars, transformVars>>

\* with open(csv_path): the reader, and the locals of index_file
OpenIndex(content) ==
    /\ rows' = content
    /\ total' = 0 /\ chunk' = <<>> /\ chunk_num' = 0 /\ submitted' = <<>>

\* len(chunk) > chunk_size
ChunkFullOffByOne(len, size) == len > size

\* len(chunk) >= chunk_size
ChunkFull(len, size) == len >= size

\* One iteration of index_file's loop.
IndexRow ==
    /\ pc = "index_file"
    /\ total < Len(rows)
    /\ total' = total + 1
    /\ LET d == Documents[rows[total + 1], type_map]
           c == Append(chunk, [_index |-> index_name, _source |-> d])
       IN IF d = Raised
          THEN /\ pc' = "ValueError"
               /\ UNCHANGED <<chunk, chunk_num, submitted, calls, es, bulk_failed>>
          ELSE IF ChunkFull(Len(c), chunk_size)
               THEN /\ chunk_num' = chunk_num + 1
                    /\ bulk(c, chunk_num + 1, "index_file")
                    /\ chunk' = <<>>
               ELSE /\ chunk' = c
                    /\ UNCHANGED <<pc, chunk_num, submitted, calls, es, bulk_failed>>
    /\ UNCHANGED <<test, chunk_size, index_name, all_csvs, path, grand_total,
                   grand_unknowns, type_map, rows, ncalls, previewVars,
                   transformVars>>

\* if chunk: never true
TailPendingDropped(c) == FALSE

\* if chunk:
TailPending(c) == c # <<>>

\* After the last row: the remaining chunk is submitted, the file is done.
IndexTail ==
    /\ pc = "index_file"
    /\ total = Len(rows)
    /\ IF TailPending(chunk)
       THEN /\ chunk_num' = chunk_num + 1
            /\ bulk(chunk, chunk_num + 1, "index_file_done")
       ELSE /\ pc' = "index_file_done"
            /\ UNCHANGED <<chunk_num, submitted, calls, es, bulk_failed>>
    /\ UNCHANGED <<test, chunk_size, index_name, all_csvs, path, grand_total,
                   grand_unknowns, type_map, rows, ncalls, total, chunk,
                   previewVars, transformVars>>

---------------------------------------------------------------------------
(* main                                                                    *)

\* A collection of another name, which the run has no business with.
OtherCollection == [exists |-> TRUE, mappings |-> OldMappings, docs |-> MaxDocs]

Init ==
    /\ pc = "main"
    /\ test \in BOOLEAN
    /\ chunk_size \in 0..MaxChunk
    /\ index_name = "arctos"
    /\ all_csvs = <<>> /\ path = 0
    /\ grand_total = 0 /\ grand_unknowns = EmptyMap /\ bulk_failed = FALSE
    /\ type_map = EmptyMap
    /\ \E c \in Collections :
          es = [n \in IndexNames |-> IF n = index_name THEN c ELSE OtherCollection]
    /\ calls = <<>>
    /\ rows = <<>> /\ ncalls = 0
    /\ IdlePreview /\ IdleIndex /\ IdleTransform

\* if not os.path.isdir(args.data_dir): raise SystemExit
CheckDataDir ==
    /\ pc = "main"
    /\ \E isdir \in BOOLEAN :
          pc' = IF isdir THEN "glob" ELSE "SystemExit_data_dir"
    /\ UNCHANGED <<type_map, rows, ncalls, argVars, backendVars, previewVars,
                   indexVars, transformVars>>

\* all_csvs = sorted(glob(...)); if not all_csvs: raise SystemExit
CollectCsvs ==
    /\ pc = "glob"
    /\ \E n \in 0..MaxFiles :
          /\ all_csvs' = [i \in 1..n |-> i]
          /\ pc' = IF n = 0 THEN "SystemExit_no_csv" ELSE "load_type_lookup"
    /\ UNCHANGED <<test, chunk_size, index_name, path, grand_total,
                   grand_unknowns, bulk_failed, type_map, rows, ncalls,
                   backendVars, previewVars, indexVars, transformVars>>

\* main with create_index called in either mode.
AfterLookupAlwaysLive(t) == "indices_exists"

\* if args.test: ... else: es = Elasticsearch(...); create_index(es, args.index)
AfterLookup(t) == IF t THEN "test_loop" ELSE "indices_exists"

\* main with the backend probed before the lookup file is read.
LoadLookupAfterProbe ==
    /\ pc = "load_type_lookup"
    /\ calls' = Append(calls, <<"Exists", IF es[index_name].exists THEN "true" ELSE "false">>)
    /\ \E lf \in LookupFiles :
          IF lf.exists /\ MissingCols(lf) # {}
          THEN pc' = "ValueError_lookup" /\ UNCHANGED type_map
          ELSE type_map' = load_type_lookup(lf) /\ pc' = AfterLookup(test)
    /\ UNCHANGED <<rows, ncalls, argVars, es, previewVars, indexVars,
                   transformVars>>

\* type_map = load_type_lookup(args.lookup_file), and the branch on args.test
LoadLookup ==
    /\ pc = "load_type_lookup"
    /\ \E lf \in LookupFiles :
          IF lf.exists /\ MissingCols(lf) # {}
          THEN pc' = "ValueError_lookup" /\ UNCHANGED type_map
          ELSE type_map' = load_type_lookup(lf) /\ pc' = AfterLookup(test)
    /\ UNCHANGED <<rows, ncalls, argVars, backendVars, previewVars, indexVars,
                   transformVars>>

\* for path in all_csvs: res = preview_file(path, type_map, ...)
TestNextFile ==
    /\ pc = "test_loop"
    /\ path < Len(all_csvs)
    /\ path' = path + 1
    /\ \E content \in RunFiles : OpenPreview(content)
    /\ pc' = "preview_file"
    /\ UNCHANGED <<test, chunk_size, index_name, all_csvs, grand_total,
                   grand_unknowns, bulk_failed, type_map, ncalls, backendVars,
                   indexVars, transformVars>>

\* grand_total += res["rows"]; grand_unknowns.update(res["unknowns"])
TestAccumulate ==
    /\ pc = "preview_file_returned"
    /\ grand_total' = grand_total + total_rows
    /\ grand_unknowns' = Update(grand_unknowns, unknowns)
    /\ pc' = "test_loop"
    /\ rows' = <<>> /\ total_rows' = 0 /\ unknowns' = EmptyMap /\ produced' = <<>>
    /\ UNCHANGED <<test, chunk_size, index_name, all_csvs, path, bulk_failed,
                   type_map, ncalls, backendVars, indexVars, transformVars>>

\* The summary of the test run; return
TestSummary ==
    /\ pc = "test_loop"
    /\ path = Len(all_csvs)
    /\ pc' = "done"
    /\ UNCHANGED <<type_map, rows, ncalls, argVars, backendVars, previewVars,
                   indexVars, transformVars>>

\* create_index has returned: the loop over the files starts
LiveStart ==
    /\ pc = "create_index_returned"
    /\ pc' = "live_loop"
    /\ UNCHANGED <<type_map, rows, ncalls, argVars, backendVars, previewVars,
                   indexVars, transformVars>>

\* for path in all_csvs: index_file(es, args.index, path, type_map, args.chunk_size)
LiveNextFile ==
    /\ pc = "live_loop"
    /\ path < Len(all_csvs)
    /\ path' = path + 1
    /\ \E content \in RunFiles : OpenIndex(content)
    /\ pc' = "index_file"
    /\ UNCHANGED <<test, chunk_size, index_name, all_csvs, grand_total,
                   grand_unknowns, bulk_failed, type_map, ncalls, backendVars,
                   previewVars, transformVars>>

\* index_file returns: its reader and its locals are gone
IndexReturn ==
    /\ pc = "index_file_done"
    /\ pc' = "live_loop"
    /\ rows' = <<>> /\ total' = 0 /\ chunk' = <<>> /\ chunk_num' = 0
    /\ submitted' = <<>>
    /\ UNCHANGED <<type_map, ncalls, argVars, backendVars, previewVars,
                   transformVars>>

\* print("All files loaded.")
LiveDone ==
    /\ pc = "live_loop"
    /\ path = Len(all_csvs)
    /\ pc' = "done"
    /\ UNCHANGED <<type_map, rows, ncalls, argVars, backendVars, previewVars,
                   indexVars, transformVars>>

Next ==
    \/ CheckDataDir \/ CollectCsvs \/ LoadLookup
    \/ TestNextFile \/ PreviewRow \/ PreviewEnd \/ TestAccumulate \/ TestSummary
    \/ IndicesExists \/ IndicesDelete \/ IndicesCreate \/ LiveStart
    \/ LiveNextFile \/ IndexRow \/ IndexTail \/ IndexReturn \/ LiveDone

Spec == Init /\ [][Next]_vars

\* The program is one thread that runs until it returns or raises.
FairSpec == Spec /\ WF_vars(Next)

---------------------------------------------------------------------------
(* SpecParity: preview_file, then index_file, over the same file and the   *)
(* same mapping.                                                           *)

FreshCollection == [exists |-> TRUE, mappings |-> IndexMappings, docs |-> 0]

InitParity ==
    /\ pc = "preview_file"
    /\ test = FALSE
    /\ chunk_size \in 0..MaxChunk
    /\ index_name = "arctos"
    /\ all_csvs = <<>> /\ path = 0
    /\ grand_total = 0 /\ grand_unknowns = EmptyMap /\ bulk_failed = FALSE
    /\ type_map \in TypeMaps
    /\ es = [n \in IndexNames |-> IF n = index_name THEN FreshCollection
                                  ELSE OtherCollection]
    /\ calls = <<>>
    /\ rows \in FileContents /\ ncalls = 0
    /\ IdlePreview /\ IdleIndex /\ IdleTransform

\* The same file is handed to index_file.
ParityGoLive ==
    /\ pc = "preview_file_returned"
    /\ OpenIndex(rows)
    /\ pc' = "index_file"
    /\ UNCHANGED <<type_map, ncalls, argVars, backendVars, previewVars,
                   transformVars>>

NextParity == PreviewRow \/ PreviewEnd \/ ParityGoLive \/ IndexRow \/ IndexTail

SpecParity == InitParity /\ [][NextParity]_vars

---------------------------------------------------------------------------
(* SpecLifecycle: create_index called twice in a row on the same name.     *)

InitLifecycle ==
    /\ pc = "indices_exists"
    /\ index_name \in IndexNames
    /\ es \in [IndexNames -> Collections]
    /\ calls = <<>>
    /\ ncalls = 0
    /\ test = FALSE /\ chunk_size = 0
    /\ all_csvs = <<>> /\ path = 0
    /\ grand_total = 0 /\ grand_unknowns = EmptyMap /\ bulk_failed = FALSE
    /\ type_map = EmptyMap /\ rows = <<>>
    /\ IdlePreview /\ IdleIndex /\ IdleTransform

\* The first call has returned: the second call
CallAgain ==
    /\ pc = "create_index_returned"
    /\ ncalls = 1
    /\ pc' = "indices_exists"
    /\ UNCHANGED <<type_map, rows, ncalls, argVars, backendVars, previewVars,
                   indexVars, transformVars>>

NextLifecycle == IndicesExists \/ IndicesDelete \/ IndicesCreate \/ CallAgain

SpecLifecycle == InitLifecycle /\ [][NextLifecycle]_vars

---------------------------------------------------------------------------
(* Claims about a run of main (under Spec).                                *)

CeilDiv(a, b) == (a + b - 1) \div b

\* The number of documents of the i-th helpers.bulk call of the file.
BatchSize(i) == Len(submitted[i].actions)

RECURSIVE SumSizes(_)
SumSizes(i) == IF i = 0 THEN 0 ELSE SumSizes(i - 1) + BatchSize(i)

\* C1: no empty batch is ever submitted; and when index_file is done with a
\* file of R rows under a batch size B >= 1, it has made ceil(R/B)
\* submissions, each but the last of B documents, the last of 1 to B.
C1_ChunkBoundary ==
    /\ \A i \in 1..Len(submitted) : BatchSize(i) >= 1
    /\ (pc = "index_file_done" /\ chunk_size >= 1) =>
          /\ Len(submitted) = CeilDiv(Len(rows), chunk_size)
          /\ \A i \in 1..(Len(submitted) - 1) : BatchSize(i) = chunk_size
          /\ Len(submitted) >= 1 =>
                BatchSize(Len(submitted)) \in 1..chunk_size

\* C1's case: N + 1 rows under batch size N = 2 gave batches of N and 1.
C1_Witness ==
    /\ pc = "index_file_done"
    /\ chunk_size = 2
    /\ Len(rows) = 3
    /\ Len(submitted) = 2
    /\ BatchSize(1) = 2 /\ BatchSize(2) = 1

AbortPcs ==
    {"SystemExit_data_dir", "SystemExit_no_csv", "ValueError_lookup",
     "ValueError", "backend_error"}

\* What C2 says of every state: a bulk call that raised has not aborted the
\* run; the batches of a file are numbered 1, 2, ... (each is submitted
\* once); and when index_file is done with a file, the batches hold every
\* row of it, whether or not a bulk call of this file or of an earlier one
\* raised.
BatchesSubmittedOnce ==
    /\ bulk_failed => pc \notin AbortPcs
    /\ \A i \in 1..Len(submitted) : submitted[i].chunk_num = i
    /\ pc = "index_file_done" => SumSizes(Len(submitted)) = Len(rows)

\* C2: a bulk call that raises is not escalated and not retried, every
\* later batch is still submitted, and the run reaches its normal end.
C2_BatchFailureIsolation ==
    /\ []BatchesSubmittedOnce
    /\ bulk_failed ~> (pc = "done")

\* C2's case: in the second file of a run, batch 2 of 3 failed and batches
\* 1 and 3 were submitted.
C2_Witness ==
    /\ pc = "index_file_done"
    /\ path = 2
    /\ Len(submitted) = 3
    /\ submitted[1].ok /\ ~submitted[2].ok /\ submitted[3].ok

\* C4: in a run with the preview flag set, no step issues a backend
\* operation or changes a collection.
C4_PreviewNoBackend ==
    [][test => (calls = <<>> /\ calls' = <<>> /\ es' = es)]_vars

\* C4's case: a preview run has gone through two files beside an existing
\* collection that holds documents.
C4_Witness ==
    /\ test
    /\ pc = "done"
    /\ path = 2
    /\ grand_total > 0
    /\ es[index_name].exists /\ es[index_name].docs > 0
    /\ calls = <<>>

FatalPcs == {"SystemExit_data_dir", "SystemExit_no_csv", "ValueError_lookup"}

\* C8: when the run ends on a missing data directory, on no input file or
\* on a lookup file without a required column, it has issued no backend
\* operation and processed no input file, and it takes no further step.
C8_FatalBeforeBackend ==
    pc \in FatalPcs =>
        /\ calls = <<>>
        /\ path = 0 /\ rows = <<>>
        /\ produced = <<>> /\ submitted = <<>>
        /\ ~ENABLED Next

\* C8's case: a live run beside an existing collection ended on the lookup
\* file's missing column.
C8_Witness ==
    /\ pc = "ValueError_lookup"
    /\ ~test
    /\ es[index_name].exists
    /\ all_csvs # <<>>

IsLifecycleCall(c) == c[1] # "BulkIndex"

IsBulkCall(c) == c[1] = "BulkIndex"

\* C9: in a live run the backend calls are Exists, then Delete if and only
\* if Exists answered true, then Create, each at most once, and every
\* BulkIndex comes after a Create that succeeded; a call of the three that
\* fails is the last call of the run, which aborts having processed no file.
C9_LifecycleBeforeBulk ==
    ~test =>
        LET life == SelectSeq(calls, IsLifecycleCall)
            bulks == SelectSeq(calls, IsBulkCall)
        IN /\ calls = life \o bulks
           /\ ncalls <= 1
           /\ Len(life) <= 3
           /\ Len(life) >= 1 => life[1][1] = "Exists"
           /\ Len(life) >= 2 =>
                 /\ life[1][2] \in {"true", "false"}
                 /\ life[2][1] = (IF life[1][2] = "true" THEN "Delete" ELSE "Create")
           /\ Len(life) = 3 => life[2] = <<"Delete", "ok">> /\ life[3][1] = "Create"
           /\ (bulks # <<>> \/ path > 0) =>
                 /\ life # <<>>
                 /\ life[Len(life)] = <<"Create", "ok">>
                 /\ ncalls = 1
           /\ \A i \in 1..Len(life) :
                 life[i][2] \in {"error", "rejected"} =>
                     /\ i = Len(calls)
                     /\ pc = "backend_error"
           /\ pc = "backend_error" =>
                 /\ bulks = <<>> /\ path = 0 /\ submitted = <<>>
                 /\ ~ENABLED Next

\* C9's case: a live run over an existing collection has deleted it,
\* created it, and then made bulk calls.
C9_Witness ==
    /\ ~test
    /\ pc = "done"
    /\ Len(calls) >= 5
    /\ calls[1] = <<"Exists", "true">>
    /\ calls[2] = <<"Delete", "ok">>
    /\ calls[3] = <<"Create", "ok">>
    /\ calls[5] = <<"BulkIndex", "sent">>

---------------------------------------------------------------------------
(* Claims about preview_file and index_file over one file (SpecParity).    *)

RECURSIVE Sources(_)
Sources(actions) ==
    IF actions = <<>> THEN <<>>
    ELSE <<Head(actions)._source>> \o Sources(Tail(actions))

\* The documents of the batches, in the order of their submission.
RECURSIVE SubmittedDocs(_)
SubmittedDocs(batches) ==
    IF batches = <<>> THEN <<>>
    ELSE Sources(Head(batches).actions) \o SubmittedDocs(Tail(batches))

\* C3: once preview_file and index_file have gone through the same file
\* with the same mapping, the documents of the submitted batches, in
\* submission order, are the documents preview_file produced, one per row,
\* whatever the batch size.
C3_PreviewLiveParity ==
    pc = "index_file_done" =>
        /\ Len(produced) = Len(rows)
        /\ SubmittedDocs(submitted) = produced

\* C3's case: a file of three rows, not all alike, went out in two batches
\* under a mapping with an entry.
C3_Witness ==
    /\ pc = "index_file_done"
    /\ Len(rows) = 3
    /\ rows[1] # rows[2]
    /\ Len(submitted) = 2
    /\ type_map # EmptyMap
    /\ Len(produced) = 3

\* The guid_prefix a row is tallied under: its trimmed value.
TallyKey(r) == strip(RawGuidPrefix(r))

\* The rows among the first n whose guid_prefix is no key of the mapping,
\* counted by guid_prefix.
RECURSIVE UnmappedTally(_, _, _)
UnmappedTally(rs, n, m) ==
    IF n = 0 THEN EmptyMap
    ELSE IF TallyKey(rs[n]) \in DOMAIN m THEN UnmappedTally(rs, n - 1, m)
         ELSE Count(UnmappedTally(rs, n - 1, m), TallyKey(rs[n]))

\* C7: when preview_file returns, the total is the number of rows of the
\* file and the unmapped tally counts, by guid_prefix, exactly the rows
\* whose guid_prefix is no key of the mapping.
C7_UnmappedTally ==
    pc = "preview_file_returned" =>
        /\ total_rows = Len(rows)
        /\ unknowns = UnmappedTally(rows, Len(rows), type_map)

---------------------------------------------------------------------------
(* Claims about create_index called twice (SpecLifecycle).                 *)

\* C5: create_index never has the backend refuse a call, and whenever it
\* has returned (the first time and the second) the collection of the name
\* exists, holds no document and has the schema of FIELDS, whatever the
\* backend held before the first call.
C5_LifecycleIdempotent ==
    /\ \A i \in 1..Len(calls) : calls[i][2] # "rejected"
    /\ pc = "create_index_returned" =>
          LET c == es[index_name] IN
          /\ c.exists
          /\ c.docs = 0
          /\ DOMAIN c.mappings.properties = FieldNames
          /\ \A i \in 1..Len(FIELDS) :
                c.mappings.properties[FIELDS[i][1]].type = FIELDS[i][2]

\* C5's case: the collection existed with documents and another schema, and
\* create_index has returned twice.
C5_Witness ==
    /\ pc = "create_index_returned"
    /\ ncalls = 2
    /\ Len(calls) = 6
    /\ calls[1] = <<"Exists", "true">>
    /\ calls[4] = <<"Exists", "true">>
    /\ es[index_name].docs = 0

=============================================================================
